---- MODULE Spec2Model ----
(***************************************************************************)
(* Model of scripts/data_processing.py: DataProcessor loads a listing      *)
(* file into a table, runs validate_and_clean over it and writes the       *)
(* result.  One action per method; the main block's try/except is the      *)
(* "failed" position.                                                      *)
(*                                                                         *)
(* Values.  A numeric cell is a float: NaN (pandas' null), +/-infinity or  *)
(* an exact decimal num/den with den > 0.  A text cell is None or a        *)
(* Python str, kept as a sequence of one-character strings.  Every row     *)
(* carries idx, its pandas index label.                                    *)
(***************************************************************************)
EXTENDS Integers, Sequences, FiniteSets, TLC

VARIABLES file, pc, step, data, loaded, log, out, err

vars == <<file, pc, step, data, loaded, log, out, err>>

\* Largest number of rows in an input file.
MaxRows == 2

-----------------------------------------------------------------------------
(* Floats *)

NaN == [k |-> "nan", num |-> 0, den |-> 1]
PosInf == [k |-> "inf", num |-> 1, den |-> 1]
NegInf == [k |-> "inf", num |-> -1, den |-> 1]
Fin(n, d) == [k |-> "fin", num |-> n, den |-> d]

IsNull(x) == x.k = "nan"

\* Series / Series (true division of float64 columns).
Div(p, a) ==
    IF IsNull(p) \/ IsNull(a) THEN NaN
    ELSE IF a.num = 0
         THEN IF p.num = 0 THEN NaN ELSE IF p.num > 0 THEN PosInf ELSE NegInf
    ELSE IF a.num > 0 THEN Fin(p.num * a.den, p.den * a.num)
    ELSE Fin(-(p.num * a.den), p.den * (-(a.num)))

\* Mutant of Between: a null value passes the comparison.
BetweenMutNaN(x, lo, hi) ==
    x.k = "nan" \/ (x.k = "fin" /\ lo * x.den <= x.num /\ x.num <= hi * x.den)

\* Series.between(lo, hi), inclusive on both sides; NaN compares False.
Between(x, lo, hi) ==
    x.k = "fin" /\ lo * x.den <= x.num /\ x.num <= hi * x.den

-----------------------------------------------------------------------------
(* Text *)

None == [null |-> TRUE, s |-> <<>>]
Str(s) == [null |-> FALSE, s |-> s]

DigitChars == <<"0", "1", "2", "3", "4", "5", "6", "7", "8", "9">>

IsDigit(c) == \E i \in 1..10 : DigitChars[i] = c

DigitVal(c) == (CHOOSE i \in 1..10 : DigitChars[i] = c) - 1

\* astype(str) on an object column: None becomes the text "None" (a NaN cell
\* becomes "nan"; neither is numeric nor a date).
AsStr(c) == IF c.null THEN <<"N", "o", "n", "e">> ELSE c.s

\* str.isnumeric(): non-empty and every character numeric.
IsNumeric(s) == Len(s) > 0 /\ \A i \in 1..Len(s) : IsDigit(s[i])

RECURSIVE DigitsToNat(_)
DigitsToNat(s) ==
    IF s = <<>> THEN 0
    ELSE 10 * DigitsToNat(SubSeq(s, 1, Len(s) - 1)) + DigitVal(s[Len(s)])

RECURSIVE Pow10(_)
Pow10(n) == IF n = 0 THEN 1 ELSE 10 * Pow10(n - 1)

\* Last index of the run of digits of s that starts at i (i - 1 when s[i] is no digit).
RECURSIVE RunEnd(_, _)
RunEnd(s, i) ==
    IF i <= Len(s) /\ IsDigit(s[i]) THEN RunEnd(s, i + 1) ELSE i - 1

\* Mutant of ExtractPrice: the pattern \d+ alone, which loses the decimals.
ExtractPriceMutInt(c) ==
    IF c.null \/ ~(\E i \in 1..Len(c.s) : IsDigit(c.s[i])) THEN NaN
    ELSE LET b == CHOOSE i \in 1..Len(c.s) :
                      IsDigit(c.s[i]) /\ \A j \in 1..(i - 1) : ~IsDigit(c.s[j])
         IN  Fin(DigitsToNat(SubSeq(c.s, b, RunEnd(c.s, b))), 1)

\* str.extract('(\d+\.?\d*)').astype(float) on one cell: the leftmost run of
\* digits, an optional point and the digits after it; no match gives NaN.
ExtractPrice(c) ==
    IF c.null \/ ~(\E i \in 1..Len(c.s) : IsDigit(c.s[i])) THEN NaN
    ELSE LET s == c.s
             b == CHOOSE i \in 1..Len(s) :
                      IsDigit(s[i]) /\ \A j \in 1..(i - 1) : ~IsDigit(s[j])
             e == RunEnd(s, b)
             hasPoint == e < Len(s) /\ s[e + 1] = "."
             f == IF hasPoint THEN RunEnd(s, e + 2) ELSE e
             int == SubSeq(s, b, e)
             frac == IF hasPoint THEN SubSeq(s, e + 2, f) ELSE <<>>
         IN  Fin(DigitsToNat(int \o frac), Pow10(Len(frac)))

\* DATE_PATTERN.match: ^\d{4}-\d{2}-\d{2}$ ; $ also matches before a final newline.
MatchesDate(s) ==
    LET t == IF Len(s) = 11 /\ s[11] = "\n" THEN SubSeq(s, 1, 10) ELSE s
    IN  /\ Len(t) = 10
        /\ \A i \in {1, 2, 3, 4, 6, 7, 9, 10} : IsDigit(t[i])
        /\ t[5] = "-" /\ t[8] = "-"

VALID_PROPERTY_TYPES ==
    { <<"a", "p", "a", "r", "t", "m", "e", "n", "t">>, <<"h", "o", "u", "s", "e">> }

IsIn(c, S) == ~c.null /\ c.s \in S

-----------------------------------------------------------------------------
(* Tables *)

\* The columns every sample file has, and the column sets of the sample files.
BaseCols == {"id", "living_area", "property_type", "scraping_date"}

ColFamilies ==
    { BaseCols \cup {"price"},
      BaseCols \cup {"raw_price"},
      BaseCols \cup {"price", "raw_price", "municipality"} }

Cells(id, price, raw, area, type, date, town) ==
    [id |-> id, price |-> price, raw_price |-> raw, living_area |-> area,
     property_type |-> type, scraping_date |-> date, municipality |-> town]

Apartment == Str(<<"a", "p", "a", "r", "t", "m", "e", "n", "t">>)
House == Str(<<"h", "o", "u", "s", "e">>)
Castle == Str(<<"c", "a", "s", "t", "l", "e">>)

GoodId == Str(<<"7">>)
GoodDate == Str(<<"2", "0", "2", "3", "-", "0", "1", "-", "0", "1">>)

Prices == {NaN, Fin(50000, 1), Fin(1500001, 1)}

RawPrices ==
    { Str(<<"c", "a", "l", "l">>),
      Str(<<"e", "5", "0", "0", "0", "0", ".", "5", "0", "/", "m">>),
      Str(<<"1", "5", "0", "0", "0", "0", "1">>) }

Areas == {NaN, Fin(0, 1), Fin(100, 1), Fin(501, 1)}

\* (id, property_type, scraping_date) of the sample rows whose price and area are fine.
Labels ==
    { <<None, House, Str(<<"2", "0", "2", "3", "-", "0", "1", "-", "0", "1", "\n">>)>>,
      <<Str(<<"x", "7">>), None, Str(<<"1", "/", "1", "/", "2", "3">>)>>,
      <<GoodId, Apartment, None>> }

\* The (price, raw_price) pairs a file with columns cols can hold.
PricePairs(cols) ==
    IF "raw_price" \in cols
    THEN {<<IF "price" \in cols THEN Fin(1, 1) ELSE NaN, r>> : r \in RawPrices}
    ELSE {<<p, None>> : p \in Prices}

GoodPair(cols) ==
    IF "raw_price" \in cols
    THEN <<IF "price" \in cols THEN Fin(1, 1) ELSE NaN,
           Str(<<"5", "0", "0", "0", "0", ".">>)>>
    ELSE <<Fin(1500000, 1), None>>

Town(cols) == IF "municipality" \in cols THEN Str(<<"Z", "H">>) ELSE None

\* The row dicts of the sample files with columns cols.
RowSet(cols) ==
    { Cells(GoodId, pp[1], pp[2], a, t, GoodDate, Town(cols)) :
          pp \in PricePairs(cols), a \in Areas, t \in {Apartment, Castle} }
    \cup
    { Cells(l[1], GoodPair(cols)[1], GoodPair(cols)[2], Fin(100, 1), l[2], l[3], Town(cols)) :
          l \in Labels }
    \cup
    { Cells(GoodId, IF "raw_price" \in cols THEN NaN ELSE Fin(-50000, 1),
            None, Fin(-100, 1), House, GoodDate, Town(cols)) }

EmptyFrame == [cols |-> {}, rows |-> <<>>]

\* Mutant of SelectRows: the kept rows come out in reverse order.
RECURSIVE SelectRowsMutReversed(_, _)
SelectRowsMutReversed(rows, keep) ==
    IF rows = <<>> THEN <<>>
    ELSE LET rest == SelectRowsMutReversed(Tail(rows),
                         [i \in 1..(Len(rows) - 1) |-> keep[i + 1]])
         IN  IF keep[1] THEN rest \o <<Head(rows)>> ELSE rest

\* Mutant of SelectRows: the kept rows are renumbered from 0 (reset_index).
SelectRowsMutReset(rows, keep) ==
    LET kept == SelectSeq([i \in 1..Len(rows) |-> [r |-> rows[i], k |-> keep[i]]],
                          LAMBDA x : x.k)
    IN  [i \in 1..Len(kept) |-> [idx |-> i - 1, c |-> kept[i].r.c]]

\* table[mask]: the rows whose flag is set, in order, each with its index label.
RECURSIVE SelectRows(_, _)
SelectRows(rows, keep) ==
    IF rows = <<>> THEN <<>>
    ELSE LET rest == SelectRows(Tail(rows), [i \in 1..(Len(rows) - 1) |-> keep[i + 1]])
         IN  IF keep[1] THEN <<Head(rows)>> \o rest ELSE rest

\* DataFrame.drop(columns=c, errors='ignore').
DropColumn(df, col) ==
    [cols |-> df.cols \ {col},
     rows |-> [i \in 1..Len(df.rows) |->
                  [idx |-> df.rows[i].idx,
                   c |-> [df.rows[i].c EXCEPT ![col] = None]]]]

\* pd.DataFrame(data_list): a RangeIndex from 0; an empty list has no columns.
DataFrame(tbl) ==
    [cols |-> IF tbl.rows = <<>> THEN {} ELSE tbl.cols,
     rows |-> [i \in 1..Len(tbl.rows) |-> [idx |-> i - 1, c |-> tbl.rows[i]]]]

\* pd.read_csv(path): the header gives the columns, a RangeIndex from 0.
ReadCsv(tbl) ==
    [cols |-> tbl.cols,
     rows |-> [i \in 1..Len(tbl.rows) |-> [idx |-> i - 1, c |-> tbl.rows[i]]]]

-----------------------------------------------------------------------------
(* Files and JSON *)

\* A Python str whose text is the JSON encoding of v, and one that is no JSON.
JStr(v) == [t |-> "str", v |-> v]
JList(tbl) == [t |-> "list", v |-> tbl]
JDict == [t |-> "dict", v |-> <<>>]
NotJson == [t |-> "str", v |-> [t |-> "invalid", v |-> <<>>]]

\* json.loads(x): TypeError unless x is a str, JSONDecodeError unless it is JSON.
Loads(x) ==
    IF x.t # "str" THEN [exc |-> "TypeError", v |-> x]
    ELSE IF x.v.t = "invalid" THEN [exc |-> "JSONDecodeError", v |-> x]
    ELSE [exc |-> "", v |-> x.v]

CsvText(tbl) == [t |-> "csv", v |-> tbl]

Plain(tbl) == JStr(JList(tbl))
Double(tbl) == JStr(JStr(JList(tbl)))

\* The contents of the sample files that hold the row list tbl.
TableContents(tbl) == {Double(tbl), Plain(tbl), CsvText(tbl)}

\* The contents of the sample files that hold no row list.
OtherContents == {NotJson, JStr(NotJson), JStr(JDict), JStr(JStr(JDict))}

Suffix(content) == IF content.t = "csv" THEN ".csv" ELSE ".json"

-----------------------------------------------------------------------------
(* DataProcessor *)

VALID_PRICE_PER_SQM_MIN == 500
VALID_PRICE_PER_SQM_MAX == 15000
VALID_LIVING_AREA_MIN == 10
VALID_LIVING_AREA_MAX == 500

Init ==
    /\ \/ \E cols \in ColFamilies, n \in 0..MaxRows :
             \E rows \in [1..n -> RowSet(cols)] :
                \E c \in TableContents([cols |-> cols, rows |-> rows]) :
                   file = [exists |-> TRUE, ext |-> Suffix(c), content |-> c]
       \/ \E e \in BOOLEAN, x \in {".json", ".avro", ".txt"}, c \in OtherContents :
             file = [exists |-> e, ext |-> x, content |-> c]
    /\ pc = "start"
    /\ step = 0
    /\ data = EmptyFrame
    /\ loaded = EmptyFrame
    /\ log = <<>>
    /\ out = <<>>
    /\ err = ""

\* An exception reaches the main block's except clause, which prints it.
Raise(e) ==
    /\ pc' = "failed"
    /\ err' = e
    /\ UNCHANGED <<file, step, data, loaded, log, out>>

\* load_data on a .json file: the parsed list, or the exception raised.
LoadJson(content) ==
    LET first == Loads(content)
        second == Loads(first.v)
    IN  IF first.exc = "JSONDecodeError"
        THEN [exc |-> "ValueError: Unable to parse the provided JSON data.", v |-> content]
        ELSE IF second.exc = "TypeError"
        THEN [exc |-> "TypeError", v |-> content]
        ELSE LET data_list == IF second.exc = "JSONDecodeError" THEN first.v ELSE second.v
             IN  IF data_list.t # "list"
                 THEN [exc |-> "ValueError: JSON content does not represent a list structure.",
                       v |-> content]
                 ELSE [exc |-> "", v |-> data_list.v]

\* load_data: the table read from the file, or the exception raised.  pandas
\* has no read_avro, so the .avro branch ends in AttributeError.
LoadData(f) ==
    IF f.ext = ".json"
    THEN LET r == LoadJson(f.content)
         IN  IF r.exc # "" THEN [exc |-> r.exc, df |-> EmptyFrame]
             ELSE [exc |-> "", df |-> DropColumn(DataFrame(r.v), "municipality")]
    ELSE IF f.ext = ".csv"
    THEN [exc |-> "", df |-> ReadCsv(f.content.v)]
    ELSE IF f.ext = ".avro"
    THEN [exc |-> "AttributeError", df |-> EmptyFrame]
    ELSE [exc |-> "ValueError: Unsupported file format", df |-> EmptyFrame]

\* DataProcessor(input_path): validate_file_path, then load_data.
Construct ==
    /\ pc = "start"
    /\ IF ~file.exists THEN Raise("FileNotFoundError")
       ELSE LET r == LoadData(file)
            IN  IF r.exc # "" THEN Raise(r.exc)
                ELSE /\ data' = r.df
                     /\ loaded' = r.df
                     /\ pc' = "clean"
                     /\ UNCHANGED <<file, step, log, out, err>>

\* The index labels of the current table, in row order.
Index(df) == [i \in 1..Len(df.rows) |-> df.rows[i].idx]

\* log_errors(condition, message): the lines it appends to lg.
LogErrors(lg, df, condition, message) ==
    IF \E i \in 1..Len(df.rows) : condition[i]
    THEN Append(lg, [msg |-> message, indices |-> Index(df)])
    ELSE lg

\* Mutant of Stages: the price-per-area filter before the living-area validation.
StagesMutFilterFirst ==
    <<"id", "price", "price_per_sqm", "living_area", "property_type", "scraping_date">>

\* validate_and_clean: the stages in the order it calls them.
Stages == <<"id", "price", "living_area", "price_per_sqm", "property_type", "scraping_date">>

AtStage(name) == pc = "clean" /\ step < Len(Stages) /\ Stages[step + 1] = name

\* The stage returns; after the last one validate_and_clean returns.
StageDone ==
    /\ step' = step + 1
    /\ pc' = IF step + 1 = Len(Stages) THEN "save" ELSE "clean"
    /\ UNCHANGED <<file, loaded, out, err>>

Column(df, col) == [i \in 1..Len(df.rows) |-> df.rows[i].c[col]]

validate_id_column ==
    /\ AtStage("id")
    /\ IF "id" \notin data.cols THEN Raise("KeyError: id")
       ELSE LET ids == Column(data, "id")
                nulls == [i \in 1..Len(ids) |-> ids[i].null]
                notnum == [i \in 1..Len(ids) |-> ~IsNumeric(AsStr(ids[i]))]
                lg1 == LogErrors(log, data, nulls, "Null IDs found.")
            IN  /\ log' = LogErrors(lg1, data, notnum, "ID is not a string or numeric.")
                /\ data' = data
                /\ StageDone

\* data['price'] = data['raw_price'].str.extract(...).astype(float)
SetPrice(df) ==
    [cols |-> df.cols \cup {"price"},
     rows |-> [i \in 1..Len(df.rows) |->
                  [idx |-> df.rows[i].idx,
                   c |-> [df.rows[i].c EXCEPT !.price = ExtractPrice(df.rows[i].c.raw_price)]]]]

validate_clean_price ==
    /\ AtStage("price")
    /\ IF "raw_price" \in data.cols
       THEN LET priced == SetPrice(data)
                nulls == [i \in 1..Len(priced.rows) |-> IsNull(priced.rows[i].c.price)]
            IN  /\ log' = LogErrors(log, priced, nulls, "Invalid or null prices found.")
                /\ data' = DropColumn(priced, "raw_price")
       ELSE /\ log' = Append(log, [msg |-> "raw_price column missing.", indices |-> <<>>])
            /\ data' = data
    /\ StageDone

validate_living_area ==
    /\ AtStage("living_area")
    /\ IF "living_area" \notin data.cols THEN Raise("KeyError: living_area")
       ELSE LET areas == Column(data, "living_area")
                invalid_area == [i \in 1..Len(areas) |->
                    ~Between(areas[i], VALID_LIVING_AREA_MIN, VALID_LIVING_AREA_MAX)]
            IN  /\ log' = LogErrors(log, data, invalid_area, "Invalid living_area values.")
                /\ data' = [data EXCEPT !.rows =
                              SelectRows(data.rows, [i \in 1..Len(areas) |-> ~invalid_area[i]])]
                /\ StageDone

\* Mutant of filter_by_price_per_sqm: the mask is computed and never applied.
filter_by_price_per_sqmMutNoFilter ==
    /\ AtStage("price_per_sqm")
    /\ data' = data
    /\ log' = log
    /\ StageDone

filter_by_price_per_sqm ==
    /\ AtStage("price_per_sqm")
    /\ IF "price" \notin data.cols THEN Raise("KeyError: price")
       ELSE IF "living_area" \notin data.cols THEN Raise("KeyError: living_area")
       ELSE LET valid_offers == [i \in 1..Len(data.rows) |->
                    Between(Div(data.rows[i].c.price, data.rows[i].c.living_area),
                            VALID_PRICE_PER_SQM_MIN, VALID_PRICE_PER_SQM_MAX)]
            IN  /\ data' = [data EXCEPT !.rows = SelectRows(data.rows, valid_offers)]
                /\ log' = log
                /\ StageDone

\* Mutant of validate_property_type: the rows it logs are removed as well.
validate_property_typeMutRemoves ==
    /\ AtStage("property_type")
    /\ LET types == Column(data, "property_type")
           valid == [i \in 1..Len(types) |-> IsIn(types[i], VALID_PROPERTY_TYPES)]
       IN  /\ log' = LogErrors(log, data, [i \in 1..Len(types) |-> ~valid[i]],
                     "Invalid property types. Only 'apartment' or 'house' are allowed.")
           /\ data' = [data EXCEPT !.rows = SelectRows(data.rows, valid)]
           /\ StageDone

validate_property_type ==
    /\ AtStage("property_type")
    /\ IF "property_type" \notin data.cols THEN Raise("KeyError: property_type")
       ELSE LET types == Column(data, "property_type")
                invalid_types == [i \in 1..Len(types) |-> ~IsIn(types[i], VALID_PROPERTY_TYPES)]
            IN  /\ log' = LogErrors(log, data, invalid_types,
                      "Invalid property types. Only 'apartment' or 'house' are allowed.")
                /\ data' = data
                /\ StageDone

validate_scraping_date ==
    /\ AtStage("scraping_date")
    /\ IF "scraping_date" \notin data.cols THEN Raise("KeyError: scraping_date")
       ELSE LET dates == Column(data, "scraping_date")
                invalid_dates == [i \in 1..Len(dates) |-> ~MatchesDate(AsStr(dates[i]))]
            IN  /\ log' = LogErrors(log, data, invalid_dates,
                      "Invalid date formats in scraping_date. Expected format 'YYYY-MM-DD'.")
                /\ data' = data
                /\ StageDone

\* to_json(orient='records'): the row dicts in order, without the index.
save_processed_data ==
    /\ pc = "save"
    /\ out' = [i \in 1..Len(data.rows) |-> data.rows[i].c]
    /\ pc' = "done"
    /\ UNCHANGED <<file, step, data, loaded, log, err>>

Next ==
    \/ Construct
    \/ validate_id_column
    \/ validate_clean_price
    \/ validate_living_area
    \/ filter_by_price_per_sqm
    \/ validate_property_type
    \/ validate_scraping_date
    \/ save_processed_data

Spec == Init /\ [][Next]_vars


-----------------------------------------------------------------------------
(* Properties *)

Range(s) == {s[i] : i \in 1..Len(s)}

\* validate_and_clean has returned.
Cleaned == pc \in {"save", "done"}

\* The stage called name has returned.
StageRan(name) ==
    pc \in {"clean", "save", "done"} /\ \E k \in 1..step : Stages[k] = name

\* 500 <= price / living_area <= 15000, by the sign of the area.
RatioInRange(c) ==
    /\ c.price.k = "fin" /\ c.living_area.k = "fin"
    /\ c.living_area.num # 0
    /\ IF c.living_area.num > 0
       THEN /\ 500 * c.living_area.num * c.price.den <= c.price.num * c.living_area.den
            /\ c.price.num * c.living_area.den <= 15000 * c.living_area.num * c.price.den
       ELSE /\ 500 * c.living_area.num * c.price.den >= c.price.num * c.living_area.den
            /\ c.price.num * c.living_area.den >= 15000 * c.living_area.num * c.price.den

\* 10 <= living_area <= 500.
AreaInRange(c) ==
    /\ c.living_area.k = "fin"
    /\ 10 * c.living_area.den <= c.living_area.num
    /\ c.living_area.num <= 500 * c.living_area.den

TypeAllowed(c) ==
    c.property_type \in {Apartment, House}

\* C1: once validate_and_clean has returned, every row of the record set, and
\* every row save_processed_data writes, has 500 <= price / living_area <= 15000;
\* a row whose price or living_area is null, or whose living_area is 0, is gone.
C1_PricePerSqmInRange ==
    /\ Cleaned => \A i \in 1..Len(data.rows) : RatioInRange(data.rows[i].c)
    /\ pc = "done" => \A i \in 1..Len(out) : RatioInRange(out[i])

\* A run that wrote a row and dropped rows with a null price, a null area and area 0.
C1_Witness ==
    /\ pc = "done" /\ Len(out) = 1
    /\ \E i \in 1..Len(loaded.rows) :
          LET c == loaded.rows[i].c
          IN  \/ c.living_area.k = "fin" /\ c.living_area.num = 0
              \/ IsNull(c.living_area)
              \/ "raw_price" \in loaded.cols /\ c.raw_price = Str(<<"c", "a", "l", "l">>)

\* C2: from the return of the living-area validation on, every row of the
\* record set has a non-null living_area with 10 <= living_area <= 500, and so
\* has every row written.
C2_LivingAreaInRange ==
    /\ StageRan("living_area") => \A i \in 1..Len(data.rows) : AreaInRange(data.rows[i].c)
    /\ pc = "done" => \A i \in 1..Len(out) : AreaInRange(out[i])

\* A finished run that kept a row and dropped one with a null or out-of-range area.
C2_Witness ==
    /\ pc = "done" /\ Len(out) = 1 /\ Len(loaded.rows) = 2
    /\ \E i \in 1..2 : ~AreaInRange(loaded.rows[i].c)
    /\ \E i \in 1..2 : RatioInRange(loaded.rows[i].c) /\ ~AreaInRange(loaded.rows[i].c)

\* The file's text is a row list, plain or encoded twice.
IsRowListJson(f) ==
    /\ f.exists /\ f.ext = ".json"
    /\ f.content.v.t \in {"list", "str"}
    /\ f.content.v.t = "str" => f.content.v.v.t = "list"

RowListOf(f) == IF f.content.v.t = "list" THEN f.content.v.v ELSE f.content.v.v.v

\* C3: a .json file holding a row list, plain or double encoded, loads without
\* error, and the record set holds the rows of that list in order.
C3_BothEncodingsLoad ==
    (pc # "start" /\ IsRowListJson(file)) =>
        /\ err = ""
        /\ Len(loaded.rows) = Len(RowListOf(file).rows)
        /\ \A i \in 1..Len(loaded.rows) :
              loaded.rows[i].c.id = RowListOf(file).rows[i].id

\* C4: every row written by save_processed_data has property_type apartment or house.
C4_OutputTypesAllowed ==
    pc = "done" => \A i \in 1..Len(out) : TypeAllowed(out[i])

Violators(msg, df) ==
    { df.rows[i].idx : i \in
        { j \in 1..Len(df.rows) :
            LET c == df.rows[j].c
            IN  CASE msg = "Null IDs found." -> c.id.null
                  [] msg = "ID is not a string or numeric." ->
                        c.id.null \/ c.id.s = <<>> \/ \E n \in 1..Len(c.id.s) : ~IsDigit(c.id.s[n])
                  [] msg = "Invalid or null prices found." -> c.price.k = "nan"
                  [] msg = "Invalid living_area values." -> ~AreaInRange(c)
                  [] msg = "Invalid property types. Only 'apartment' or 'house' are allowed." ->
                        ~TypeAllowed(c)
                  [] msg = "Invalid date formats in scraping_date. Expected format 'YYYY-MM-DD'." ->
                        ~MatchesDate(AsStr(c.scraping_date))
                  [] OTHER -> FALSE } }

\* C6: a log line written by a stage lists exactly the rows of the current
\* record set that break the stage's rule (for price cleaning, the record set
\* with the prices just extracted).
C6_LoggedRowsAreViolators ==
    [][ \A k \in (Len(log) + 1)..Len(log') :
          Range(log'[k].indices) =
              Violators(log'[k].msg, IF AtStage("price") THEN data' ELSE data) ]_vars

\* The stage order the claim states.
ClaimedOrder ==
    <<"id", "price", "price_per_sqm", "living_area", "property_type", "scraping_date">>

\* C7 as stated: the stages run in the order id, price, price-per-area filter,
\* living-area validation, property type, scraping date, so the rows the
\* living-area validation examines have all passed the price-per-area filter.
C7_FilterBeforeLivingArea ==
    /\ (pc = "clean" /\ step < 6) => AtStage(ClaimedOrder[step + 1])
    /\ AtStage("living_area") => \A i \in 1..Len(data.rows) : RatioInRange(data.rows[i].c)

\* The stage order of validate_and_clean.
CodeOrder ==
    <<"id", "price", "living_area", "price_per_sqm", "property_type", "scraping_date">>

\* C7 amended: the stages run in the order id, price, living-area validation,
\* price-per-area filter, property type, scraping date, each on the record set
\* the previous one left: the rows the price-per-area filter examines have all
\* passed the living-area validation, and the rows the living-area validation
\* examines are all the rows loaded.
C7_LivingAreaBeforeFilter ==
    /\ (pc = "clean" /\ step < 6) => AtStage(CodeOrder[step + 1])
    /\ AtStage("price_per_sqm") => \A i \in 1..Len(data.rows) : AreaInRange(data.rows[i].c)
    /\ AtStage("living_area") => Index(data) = Index(loaded)

\* The filter is about to run on a row the living-area validation passed, after
\* that validation dropped a row the filter would have kept.
C7_Witness ==
    /\ AtStage("price_per_sqm") /\ Len(data.rows) = 1 /\ Len(loaded.rows) = 2
    /\ ~RatioInRange(data.rows[1].c)
    /\ \E k \in 1..Len(log) :
          log[k].msg = "Invalid living_area values." /\ Len(log[k].indices) = 2

\* The cells of a row that no stage rewrites.
Fixed(c) == <<c.id, c.living_area, c.property_type, c.scraping_date>>

\* C8: the rows of the record set are a subsequence of the rows loaded, in the
\* loaded order, and the rows written are the rows of the record set in order.
C8_OrderPreserved ==
    /\ \A i \in 1..Len(data.rows) :
          /\ data.rows[i].idx + 1 \in 1..Len(loaded.rows)
          /\ Fixed(data.rows[i].c) = Fixed(loaded.rows[data.rows[i].idx + 1].c)
    /\ \A i, j \in 1..Len(data.rows) : i < j => data.rows[i].idx < data.rows[j].idx
    /\ Len(data.rows) <= Len(loaded.rows)
    /\ pc = "done" =>
          /\ Len(out) = Len(data.rows)
          /\ \A i \in 1..Len(out) : Fixed(out[i]) = Fixed(data.rows[i].c)

\* Two different rows were written.
C8_Witness ==
    pc = "done" /\ Len(out) = 2 /\ Fixed(out[1]) # Fixed(out[2])

\* C9 as stated: an identifier logged by the property-type or the scraping-date
\* check is a position of the current record set, counted from 0.
C9_LoggedPositionsShift ==
    [][ (AtStage("property_type") \/ AtStage("scraping_date")) =>
          \A k \in (Len(log) + 1)..Len(log') :
              Range(log'[k].indices) \subseteq 0..(Len(data.rows) - 1) ]_vars

\* C9 amended: an identifier logged by a stage is the index label of a row of
\* the current record set, and that label is the row's position, counted from
\* 0, in the record set as loaded; removing rows does not renumber the rest.
C9_LoggedLabelsAreLoadedPositions ==
    [][ \A k \in (Len(log) + 1)..Len(log') :
          \A n \in Range(log'[k].indices) :
             /\ n + 1 \in 1..Len(loaded.rows)
             /\ \E i \in 1..Len(data.rows) :
                   /\ data.rows[i].idx = n
                   /\ Fixed(data.rows[i].c) = Fixed(loaded.rows[n + 1].c) ]_vars

\* The property-type check logged label 1 for the only row left.
C9_Witness ==
    /\ pc = "save" /\ Len(data.rows) = 1 /\ Len(loaded.rows) = 2
    /\ Fixed(loaded.rows[1].c) # Fixed(loaded.rows[2].c)
    /\ \E k \in 1..Len(log) :
          /\ log[k].msg = "Invalid property types. Only 'apartment' or 'house' are allowed."
          /\ log[k].indices = <<1>>

SameNumber(x, y) == x.k = y.k /\ x.num * y.den = y.num * x.den

\* The number each sample raw_price holds.
ExpectedPrice(raw) ==
    CASE raw = Str(<<"e", "5", "0", "0", "0", "0", ".", "5", "0", "/", "m">>) -> Fin(100001, 2)
      [] raw = Str(<<"1", "5", "0", "0", "0", "0", "1">>) -> Fin(1500001, 1)
      [] raw = Str(<<"5", "0", "0", "0", "0", ".">>) -> Fin(50000, 1)
      [] OTHER -> NaN

====
